---- MODULE Spec2Model ----
(***************************************************************************)
(* Dataset acquisition and caching layer of src/data/dataset.py.           *)
(*                                                                         *)
(* Spec      : the tiered cache store (Dataset.get) behind the memoized    *)
(*             accessors, with the origin fetch as one step that either    *)
(*             yields a table or raises.                                   *)
(* SpecFetch : StoreLocationsDataset._fetch_dataset, two concurrent        *)
(*             paginated fetches (fetch_all) joined by asyncio.gather.     *)
(* SpecFlat  : BookCategoriesDataset._fetch_dataset, the category tree     *)
(*             flattener.                                                  *)
(* SpecBooks : the concurrent part of BooksDataset._fetch_dataset, one     *)
(*             fetch_books_for_category per category slug with the shared  *)
(*             description limiter; SpecBooksFair adds the fairness of the *)
(*             event loop.                                                 *)
(* SpecRace  : the tiered cache store used by two processes that share the *)
(*             local directory and the shared remote store.                *)
(***************************************************************************)
EXTENDS Integers, Sequences, FiniteSets, TLC

(***************************************************************************)
(* Bounds.                                                                 *)
(***************************************************************************)
\* Tables are identified by a version number: 1 is a snapshot left by an
\* earlier session, 2..MaxVer are the tables the origin API can return now.
MaxVer == 3

\* Largest total_page the origin reports, and records on a full page.
MaxPages == 3
PageRecs == 2

\* Largest number of category nodes in the origin's category response.
MaxNodes == 5

\* Books the origin lists under one category in the small catalogs, and the
\* number of books by which the large catalog exceeds the limiter.
MaxBooks == 3
OverLimit == 1

\* Largest number of books of a category for which the order of completion
\* of its description fetches is recorded.
MaxOrdered == 2

\* asyncio.Semaphore(10), line 198.
SemaphoreLimit == 10

Kinds == {"books", "categories", "stores"}
AllProcs == {"p1", "p2"}

\* pd.DataFrame(rows): a table is its rows; None (no table, no file) is <<>>.
\* In Spec the rows of a table are abstracted to its version number.
DataFrame(rows) == <<rows>>
NoTable == <<>>
StaleTable == DataFrame(1)
FreshTables == {DataFrame(v) : v \in 2..MaxVer}

VARIABLES
    procs,      \* the processes that run in this behaviour
    raced,      \* the dataset kind two concurrent processes ask for ("none" with one process)
    local,      \* local[k]: table held by the local snapshot file of kind k, or NoTable
    shared,     \* shared[k]: table held by the shared remote store for kind k, or NoTable
    hf_login,   \* hf_login[p]: the module global hf_login of process p
    memo,       \* memo[p][k]: the st.cache_data entry of accessor k in process p
    ran,        \* ran[p][k]: Dataset.get() of kind k has been entered in process p
    reran,      \* reran[p][k]: ... and has been entered a second time
    pc,         \* pc[p]: position of process p inside an accessor call
    call,       \* call[p]: record of the current (or last finished) accessor call
    task,       \* task[f]: state of the coroutine fetch_all(f) of the stores fetch
    categories, \* the category tree of the origin response being flattened
    idx,        \* number of root categories already flattened (loop at line 173)
    all_categories, \* the list all_categories built at lines 172-174
    catalog,    \* catalog[c]: the books the origin lists under category c, in page order
    mayFail,    \* the description requests <<c, i>> that the origin may fail
    btask,      \* btask[c]: state of the coroutine fetch_books_for_category(c)
    waiters,    \* the description fetches waiting for description_semaphore, oldest first
    permits,    \* the value of description_semaphore
    bresult,    \* outcome of the gather over the categories (lines 250-258)
    logins,     \* logins[p]: calls of hf_hub.login by process p so far, and how many returned
    lastWrite   \* lastWrite[k]: who last wrote the local file of kind k, and what

cacheVars == <<procs, raced, local, shared, hf_login, memo, ran, reran, pc, call, logins,
               lastWrite>>
flatVars == <<categories, idx, all_categories>>
booksVars == <<catalog, mayFail, btask, waiters, permits, bresult>>

\* no get() of this behaviour has written the file yet.
NoWrite == [by |-> "none", df |-> NoTable]

NoCall ==
    [kind |-> "none", status |-> "none", df |-> NoTable, viaGet |-> FALSE,
     hadLocal |-> FALSE, hadShared |-> FALSE, ops |-> <<>>, failed |-> "none",
     cause |-> "none", check |-> "none", prevFailed |-> "none"]

\* Operations that contact the shared remote store, and the origin API.
RemoteOps == {"hf_check", "hf_download", "login", "publish"}
OriginOps == {"origin_fetch"}

Has(ops, names) == \E i \in 1..Len(ops) : ops[i] \in names
Count(ops, name) == Cardinality({i \in 1..Len(ops) : ops[i] = name})

(***************************************************************************)
(* Helpers of Dataset.                                                     *)
(***************************************************************************)
\* variant: the existence test looks at the wrong path and never finds the file.
LoadLocal_NeverFinds(k) == NoTable

\* Dataset._load_local: the table of the file if it exists, None otherwise.
LoadLocal(k) == local[k]

\* variant: the table is never written.
SaveLocal_Skip(k, df) == local

\* Dataset._save_local: the whole table replaces the file.
SaveLocal(k, df) == [local EXCEPT ![k] = df]

\* Outcomes of hf_hub_download inside _check_exists_on_hf.
CheckOutcomes(k) ==
    IF shared[k] # NoTable THEN {"ok", "network", "auth"}
                           ELSE {"missing", "network", "auth"}

\* Dataset._check_exists_on_hf: True when the download succeeds, False on
\* any exception.
CheckExistsOnHf(outcome) == outcome = "ok"

\* The step at which the previous call of accessor k by process p raised,
\* when the call before this one was of the same accessor.
PrevFailed(p, k) == IF call[p].kind = k THEN call[p].failed ELSE "none"

\* variant: the three accessors share one memo.
Return_SharedMemo(p, df) ==
    /\ pc' = [pc EXCEPT ![p] = "idle"]
    /\ memo' = [memo EXCEPT ![p] = [k \in Kinds |-> df]]

\* accessor return through st.cache_data: the result is stored and returned.
Return(p, df) ==
    /\ pc' = [pc EXCEPT ![p] = "idle"]
    /\ memo' = [memo EXCEPT ![p][call[p].kind] = df]

\* an exception leaves the accessor: nothing is stored.
Raise(p) ==
    /\ pc' = [pc EXCEPT ![p] = "idle"]
    /\ memo' = memo

(***************************************************************************)
(* Accessors get_books / get_book_categories / get_store_locations.        *)
(***************************************************************************)
\* variant: the accessor is not memoized, every call enters Dataset.get().
Accessor_NoMemo(p, k) ==
    /\ p \in procs
    /\ pc[p] = "idle"
    /\ call' = [call EXCEPT ![p] =
            [NoCall EXCEPT !.kind = k, !.status = "running", !.viaGet = TRUE,
                           !.prevFailed = PrevFailed(p, k)]]
    /\ pc' = [pc EXCEPT ![p] = "get"]
    /\ ran' = [ran EXCEPT ![p][k] = TRUE]
    /\ reran' = [reran EXCEPT ![p][k] = reran[p][k] \/ ran[p][k]]
    /\ UNCHANGED <<procs, raced, local, shared, hf_login, memo, task, flatVars, booksVars,
                   logins, lastWrite>>

Accessor(p, k) ==
    /\ p \in procs
    /\ pc[p] = "idle"
    /\ IF memo[p][k] # NoTable
       THEN /\ call' = [call EXCEPT ![p] =
                    [NoCall EXCEPT !.kind = k, !.status = "returned",
                                   !.df = memo[p][k]]]
            /\ UNCHANGED <<pc, ran, reran>>
       ELSE /\ call' = [call EXCEPT ![p] =
                    [NoCall EXCEPT !.kind = k, !.status = "running",
                                   !.viaGet = TRUE,
                                   !.prevFailed = PrevFailed(p, k)]]
            /\ pc' = [pc EXCEPT ![p] = "get"]
            /\ ran' = [ran EXCEPT ![p][k] = TRUE]
            /\ reran' = [reran EXCEPT ![p][k] = reran[p][k] \/ ran[p][k]]
    /\ UNCHANGED <<procs, raced, local, shared, hf_login, memo, task, flatVars, booksVars,
                   logins, lastWrite>>

(***************************************************************************)
(* Dataset.get                                                             *)
(***************************************************************************)
\* lines 121-124: local tier.
GetLocal(p) ==
    /\ pc[p] = "get"
    /\ LET k == call[p].kind
           df == LoadLocal(k)
           c == [call[p] EXCEPT !.hadLocal = local[k] # NoTable,
                                !.hadShared = shared[k] # NoTable,
                                !.ops = Append(@, "load_local")]
       IN IF df # NoTable
          THEN /\ call' = [call EXCEPT ![p] =
                       [c EXCEPT !.df = df, !.status = "returned"]]
               /\ Return(p, df)
          ELSE /\ call' = [call EXCEPT ![p] = c]
               /\ pc' = [pc EXCEPT ![p] = "check_hf"]
               /\ memo' = memo
    /\ UNCHANGED <<procs, raced, local, shared, hf_login, ran, reran, task, flatVars, booksVars,
                   logins, lastWrite>>

\* variant: only a missing artifact counts as absent, other errors propagate.
CheckHf_Propagates(p) ==
    /\ pc[p] = "check_hf"
    /\ \E outcome \in CheckOutcomes(call[p].kind) :
          IF outcome \in {"ok", "missing"}
          THEN /\ call' = [call EXCEPT ![p].ops = Append(@, "hf_check"),
                                       ![p].check = outcome]
               /\ pc' = [pc EXCEPT ![p] =
                      IF outcome = "ok" THEN "download" ELSE "fetch"]
               /\ memo' = memo
          ELSE /\ call' = [call EXCEPT ![p].ops = Append(@, "hf_check"),
                                       ![p].check = outcome,
                                       ![p].failed = "hf_check",
                                       ![p].cause = outcome,
                                       ![p].status = "raised"]
               /\ Raise(p)
    /\ UNCHANGED <<procs, raced, local, shared, hf_login, ran, reran, task, flatVars, booksVars,
                   logins, lastWrite>>

\* line 127: shared tier, existence check.
CheckHf(p) ==
    /\ pc[p] = "check_hf"
    /\ \E outcome \in CheckOutcomes(call[p].kind) :
          /\ call' = [call EXCEPT ![p].ops = Append(@, "hf_check"),
                                  ![p].check = outcome]
          /\ pc' = [pc EXCEPT ![p] =
                 IF CheckExistsOnHf(outcome) THEN "download" ELSE "fetch"]
    /\ UNCHANGED <<procs, raced, local, shared, hf_login, memo, ran, reran, task, flatVars, booksVars,
                   logins, lastWrite>>

\* variant: a failed download is treated as a miss and get() goes on to the
\* origin tier.
DownloadFromHf_FallsThrough(p) ==
    /\ pc[p] = "download"
    /\ LET k == call[p].kind
       IN \E ok \in BOOLEAN :
             IF ok /\ shared[k] # NoTable
             THEN /\ call' = [call EXCEPT ![p].ops = Append(@, "hf_download"),
                                          ![p].df = shared[k]]
                  /\ pc' = [pc EXCEPT ![p] = "save_downloaded"]
             ELSE /\ call' = [call EXCEPT ![p].ops = Append(@, "hf_download"),
                                          ![p].failed = "hf_download",
                                          ![p].cause = "network"]
                  /\ pc' = [pc EXCEPT ![p] = "fetch"]
    /\ UNCHANGED <<procs, raced, local, shared, hf_login, memo, ran, reran, task,
                   flatVars, booksVars, logins, lastWrite>>

\* line 128: _download_from_hf, which re-raises a failure.
DownloadFromHf(p) ==
    /\ pc[p] = "download"
    /\ LET k == call[p].kind
       IN \E ok \in BOOLEAN :
             IF ok /\ shared[k] # NoTable
             THEN /\ call' = [call EXCEPT ![p].ops = Append(@, "hf_download"),
                                          ![p].df = shared[k]]
                  /\ pc' = [pc EXCEPT ![p] = "save_downloaded"]
                  /\ memo' = memo
             ELSE /\ call' = [call EXCEPT ![p].ops = Append(@, "hf_download"),
                                          ![p].failed = "hf_download",
                                          ![p].cause = "network",
                                          ![p].status = "raised"]
                  /\ Raise(p)
    /\ UNCHANGED <<procs, raced, local, shared, hf_login, ran, reran, task, flatVars, booksVars,
                   logins, lastWrite>>

\* variant: the downloaded table is published again after it is saved.
SaveDownloaded_Republish(p) ==
    /\ pc[p] = "save_downloaded"
    /\ local' = SaveLocal(call[p].kind, call[p].df)
    /\ call' = [call EXCEPT ![p].ops = Append(@, "save_local")]
    /\ pc' = [pc EXCEPT ![p] = IF hf_login[p] THEN "upload" ELSE "login"]
    /\ lastWrite' = [lastWrite EXCEPT ![call[p].kind] = [by |-> p, df |-> call[p].df]]
    /\ UNCHANGED <<procs, raced, shared, hf_login, memo, ran, reran, task, flatVars,
                   booksVars, logins>>

\* lines 129-130: persist the downloaded table and return it.
SaveDownloaded(p) ==
    /\ pc[p] = "save_downloaded"
    /\ local' = SaveLocal(call[p].kind, call[p].df)
    /\ call' = [call EXCEPT ![p].ops = Append(@, "save_local"),
                            ![p].status = "returned"]
    /\ Return(p, call[p].df)
    /\ lastWrite' = [lastWrite EXCEPT ![call[p].kind] = [by |-> p, df |-> call[p].df]]
    /\ UNCHANGED <<procs, raced, shared, hf_login, ran, reran, task, flatVars, booksVars,
                   logins>>

\* BooksDataset._fetch_dataset, line 245: self.repo_id is not an attribute
\* of the class and BookCategoriesDataset() takes no argument, so the fetch
\* raises before any request is made.
FetchOutcomes(k) ==
    IF k = "books" THEN {"attribute_error"} ELSE {"ok", "network", "decode"}

\* variant: get() catches the error of the fetch and carries on with the
\* write and the publish of an empty table.
FetchDataset_Swallowed(p) ==
    /\ pc[p] = "fetch"
    /\ LET k == call[p].kind
       IN \E outcome \in FetchOutcomes(k), t \in FreshTables :
             IF outcome = "ok"
             THEN call' = [call EXCEPT ![p].ops = Append(@, "origin_fetch"),
                                       ![p].df = t]
             ELSE call' = [call EXCEPT ![p].ops = Append(@, "origin_fetch"),
                                       ![p].failed = "origin_fetch",
                                       ![p].cause = outcome]
    /\ pc' = [pc EXCEPT ![p] = "save_fetched"]
    /\ UNCHANGED <<procs, raced, local, shared, hf_login, memo, ran, reran, task,
                   flatVars, booksVars, logins, lastWrite>>

\* line 133: origin tier.
FetchDataset(p) ==
    /\ pc[p] = "fetch"
    /\ LET k == call[p].kind
       IN \E outcome \in FetchOutcomes(k), t \in FreshTables :
             IF outcome = "ok"
             THEN /\ call' = [call EXCEPT ![p].ops = Append(@, "origin_fetch"),
                                          ![p].df = t]
                  /\ pc' = [pc EXCEPT ![p] = "save_fetched"]
                  /\ memo' = memo
             ELSE /\ call' = [call EXCEPT ![p].ops = Append(@, "origin_fetch"),
                                          ![p].failed = "origin_fetch",
                                          ![p].cause = outcome,
                                          ![p].status = "raised"]
                  /\ Raise(p)
    /\ UNCHANGED <<procs, raced, local, shared, hf_login, ran, reran, task, flatVars, booksVars,
                   logins, lastWrite>>

\* line 136, then the test of hf_login at line 88.
SaveFetched(p) ==
    /\ pc[p] = "save_fetched"
    /\ local' = SaveLocal(call[p].kind, call[p].df)
    /\ call' = [call EXCEPT ![p].ops = Append(@, "save_local")]
    /\ pc' = [pc EXCEPT ![p] = IF hf_login[p] THEN "upload" ELSE "login"]
    /\ lastWrite' = [lastWrite EXCEPT ![call[p].kind] = [by |-> p, df |-> call[p].df]]
    /\ UNCHANGED <<procs, raced, shared, hf_login, memo, ran, reran, task, flatVars, booksVars,
                   logins>>

\* one more call of hf_hub.login by p, successful or not (counted 0, 1, many).
LoginCalled(p, ok) ==
    [logins EXCEPT ![p] = [calls |-> IF @.calls < 2 THEN @.calls + 1 ELSE 2,
                           ok |-> IF ok /\ @.ok < 2 THEN @.ok + 1 ELSE @.ok]]

\* variant: the flag is set before hf_hub.login is called.
Login_FlagFirst(p) ==
    /\ pc[p] = "login"
    /\ \E ok \in BOOLEAN :
          /\ logins' = LoginCalled(p, ok)
          /\ hf_login' = [hf_login EXCEPT ![p] = TRUE]
          /\ IF ok
             THEN /\ call' = [call EXCEPT ![p].ops = Append(@, "login")]
                  /\ pc' = [pc EXCEPT ![p] = "upload"]
                  /\ memo' = memo
             ELSE /\ call' = [call EXCEPT ![p].ops = Append(@, "login"),
                                          ![p].failed = "login",
                                          ![p].cause = "auth",
                                          ![p].status = "raised"]
                  /\ Raise(p)
    /\ UNCHANGED <<procs, raced, local, shared, ran, reran, task, flatVars, booksVars,
                   lastWrite>>

\* variant: a successful login is not remembered in hf_login.
Login_NoFlag(p) ==
    /\ pc[p] = "login"
    /\ \E ok \in BOOLEAN :
          /\ logins' = LoginCalled(p, ok)
          /\ hf_login' = hf_login
          /\ IF ok
             THEN /\ call' = [call EXCEPT ![p].ops = Append(@, "login")]
                  /\ pc' = [pc EXCEPT ![p] = "upload"]
                  /\ memo' = memo
             ELSE /\ call' = [call EXCEPT ![p].ops = Append(@, "login"),
                                          ![p].failed = "login",
                                          ![p].cause = "auth",
                                          ![p].status = "raised"]
                  /\ Raise(p)
    /\ UNCHANGED <<procs, raced, local, shared, ran, reran, task, flatVars, booksVars,
                   lastWrite>>

\* lines 88-97: hf_hub.login, outside the try block of _upload_to_hf; the
\* flag is set by the statement after the call, so only when it returns.
Login(p) ==
    /\ pc[p] = "login"
    /\ \E ok \in BOOLEAN :
          /\ logins' = LoginCalled(p, ok)
          /\ IF ok
             THEN /\ hf_login' = [hf_login EXCEPT ![p] = TRUE]
                  /\ call' = [call EXCEPT ![p].ops = Append(@, "login")]
                  /\ pc' = [pc EXCEPT ![p] = "upload"]
                  /\ memo' = memo
             ELSE /\ hf_login' = hf_login
                  /\ call' = [call EXCEPT ![p].ops = Append(@, "login"),
                                          ![p].failed = "login",
                                          ![p].cause = "auth",
                                          ![p].status = "raised"]
                  /\ Raise(p)
    /\ UNCHANGED <<procs, raced, local, shared, ran, reran, task, flatVars, booksVars,
                   lastWrite>>

\* variant: a failed publish removes the local snapshot file again.
UploadToHf_Rollback(p) ==
    /\ pc[p] = "upload"
    /\ LET k == call[p].kind
       IN \E ok \in BOOLEAN :
             IF ok /\ local[k] # NoTable
             THEN /\ shared' = [shared EXCEPT ![k] = local[k]]
                  /\ local' = local
                  /\ call' = [call EXCEPT ![p].ops = Append(@, "publish"),
                                          ![p].status = "returned"]
                  /\ Return(p, call[p].df)
             ELSE /\ shared' = shared
                  /\ local' = [local EXCEPT ![k] = NoTable]
                  /\ call' = [call EXCEPT ![p].ops = Append(@, "publish"),
                                          ![p].failed = "publish",
                                          ![p].cause = "network",
                                          ![p].status = "raised"]
                  /\ Raise(p)
    /\ UNCHANGED <<procs, raced, hf_login, ran, reran, task, flatVars, booksVars,
                   logins, lastWrite>>

\* lines 99-109 and 139: create_repo, upload_file of the local file, return.
\* The handler at lines 107-109 prints the error and re-raises it.
UploadToHf(p) ==
    /\ pc[p] = "upload"
    /\ LET k == call[p].kind
       IN \E ok \in BOOLEAN :
             IF ok /\ local[k] # NoTable
             THEN /\ shared' = [shared EXCEPT ![k] = local[k]]
                  /\ call' = [call EXCEPT ![p].ops = Append(@, "publish"),
                                          ![p].status = "returned"]
                  /\ Return(p, call[p].df)
             ELSE /\ shared' = shared
                  /\ call' = [call EXCEPT ![p].ops = Append(@, "publish"),
                                          ![p].failed = "publish",
                                          ![p].cause = "network",
                                          ![p].status = "raised"]
                  /\ Raise(p)
    /\ UNCHANGED <<procs, raced, local, hf_login, ran, reran, task, flatVars, booksVars,
                   logins, lastWrite>>

(***************************************************************************)
(* StoreLocationsDataset._fetch_dataset: fetch_all(True) and                *)
(* fetch_all(False) run as two tasks of one asyncio.gather.  The same page  *)
(* loop is written in fetch_books_for_category (lines 214-230).             *)
(***************************************************************************)
Fetchers == {"online", "offline"}
PageOutcomes == {"ok", "network", "decode"}

IdleTask ==
    [st |-> "idle", total |-> 0, stores |-> <<>>, pending |-> {},
     arrived |-> <<>>, out |-> [pg \in 1..MaxPages |-> "none"],
     issued |-> 0, fanout |-> FALSE, finished |-> 0]

\* The place of the next coroutine to return among those of the gather at
\* line 318: 1 for the first to return its list, 2 for the second.
NextFinished == Cardinality({g \in Fetchers : task[g].finished > 0}) + 1

\* The records the origin serves on page pg of listing f.
Records(f, pg) == [i \in 1..PageRecs |-> [type |-> f, page |-> pg, n |-> i]]

\* data["data"] of the first response.
Page1Data(f, total) == IF total = 0 THEN <<>> ELSE Records(f, 1)

\* variant: the fan-out is entered whatever the page count.
HasMorePages_Always(total) == TRUE

\* lines 305: if total_pages > 1
HasMorePages(total) == total > 1

\* line 310: range(2, total_pages + 1)
FanOutPages(total) == 2..total

\* variant: the responses are taken in the order in which they completed.
GatherOrder_AsCompleted(t) == t.arrived

\* line 312: asyncio.gather returns the responses in the order of the task
\* list, whatever the order of completion.
GatherOrder(t) == [i \in 1..Cardinality(FanOutPages(t.total)) |-> i + 1]

\* variant: a response that cannot be decoded is skipped.
Undecodable_Skipped(t, responses) == FALSE

\* line 314: resp.json()["data"] raises on a response that cannot be decoded.
Undecodable(t, responses) ==
    \E i \in 1..Len(responses) : t.out[responses[i]] = "decode"

\* lines 313-314: stores.extend(resp.json()["data"]) for each response.
RECURSIVE ExtendAll(_, _, _, _)
ExtendAll(stores, f, responses, i) ==
    IF i > Len(responses) THEN stores
    ELSE ExtendAll(stores \o Records(f, responses[i]), f, responses, i + 1)

\* line 318: both coroutines start and each issues its request for page 1.
StoresFetchStart(p) ==
    /\ pc[p] = "fetch"
    /\ call[p].kind = "stores"
    /\ call' = [call EXCEPT ![p].ops = Append(@, "origin_fetch")]
    /\ pc' = [pc EXCEPT ![p] = "fetching"]
    /\ task' = [f \in Fetchers |-> [IdleTask EXCEPT !.st = "page1", !.issued = 1]]
    /\ UNCHANGED <<procs, raced, local, shared, hf_login, memo, ran, reran, flatVars, booksVars,
                   logins, lastWrite>>

\* lines 298-312: the first response; the requests for pages 2..N are
\* created and handed to asyncio.gather.
Page1Response(f) ==
    /\ task[f].st = "page1"
    /\ \E outcome \in PageOutcomes, total \in 0..MaxPages :
          IF outcome = "ok"
          THEN LET more == HasMorePages(total)
                   pages == IF more THEN FanOutPages(total) ELSE {}
               IN task' = [task EXCEPT ![f] =
                      [@ EXCEPT !.out[1] = "ok",
                                !.total = total,
                                !.stores = Page1Data(f, total),
                                !.pending = pages,
                                !.issued = @ + Cardinality(pages),
                                !.fanout = more,
                                !.finished = IF ~more THEN NextFinished ELSE 0,
                                !.st = IF ~more THEN "done"
                                       ELSE IF pages = {} THEN "merge"
                                       ELSE "gather"]]
          ELSE task' = [task EXCEPT ![f] =
                      [@ EXCEPT !.out[1] = outcome, !.st = "failed"]]
    /\ UNCHANGED <<cacheVars, flatVars, booksVars>>

\* one of the concurrent requests completes; a request that raised makes
\* asyncio.gather raise at once.
PageComplete(f, pg) ==
    /\ task[f].st = "gather"
    /\ pg \in task[f].pending
    /\ \E outcome \in PageOutcomes :
          task' = [task EXCEPT ![f] =
              [@ EXCEPT !.out[pg] = outcome,
                        !.arrived = Append(@, pg),
                        !.pending = @ \ {pg},
                        !.st = IF outcome = "network" THEN "failed"
                               ELSE IF task[f].pending = {pg} THEN "merge"
                               ELSE "gather"]]
    /\ UNCHANGED <<cacheVars, flatVars, booksVars>>

\* lines 312-316: gather returned, the responses are decoded and appended.
MergePages(f) ==
    /\ task[f].st = "merge"
    /\ LET responses == GatherOrder(task[f])
       IN IF Undecodable(task[f], responses)
          THEN task' = [task EXCEPT ![f].st = "failed"]
          ELSE task' = [task EXCEPT
                   ![f].stores = ExtendAll(@, f, responses, 1),
                   ![f].finished = NextFinished,
                   ![f].st = "done"]
    /\ UNCHANGED <<cacheVars, flatVars, booksVars>>

\* variant: the two lists are concatenated in the order in which the
\* coroutines returned.
StoresFetchJoin_AsCompleted(p) ==
    /\ pc[p] = "fetching"
    /\ \A f \in Fetchers : task[f].st = "done"
    /\ LET first == CHOOSE f \in Fetchers : task[f].finished = 1
           second == CHOOSE f \in Fetchers : task[f].finished = 2
       IN call' = [call EXCEPT ![p].df =
                      DataFrame(task[first].stores \o task[second].stores)]
    /\ pc' = [pc EXCEPT ![p] = "save_fetched"]
    /\ UNCHANGED <<procs, raced, local, shared, hf_login, memo, ran, reran, task, flatVars,
                   booksVars, logins, lastWrite>>

\* lines 318-323: gather returns the two lists in the order of its
\* arguments, fetch_all(True) then fetch_all(False); the table is built
\* from online_stores + offline_stores.
StoresFetchJoin(p) ==
    /\ pc[p] = "fetching"
    /\ \A f \in Fetchers : task[f].st = "done"
    /\ call' = [call EXCEPT ![p].df =
                   DataFrame(task["online"].stores \o task["offline"].stores)]
    /\ pc' = [pc EXCEPT ![p] = "save_fetched"]
    /\ UNCHANGED <<procs, raced, local, shared, hf_login, memo, ran, reran, task, flatVars,
                   booksVars, logins, lastWrite>>

FailedOutcome(t) ==
    IF \E pg \in 1..MaxPages : t.out[pg] = "network" THEN "network" ELSE "decode"

\* lines 318-321 and 133: the outer gather raises as soon as one fetch_all
\* raised; nothing catches it, so _fetch_dataset and get() raise.  The other
\* coroutine is left behind and its result is never used.
StoresFetchFail(p) ==
    /\ pc[p] = "fetching"
    /\ \E f \in Fetchers :
          /\ task[f].st = "failed"
          /\ call' = [call EXCEPT ![p].failed = "origin_fetch",
                                  ![p].cause = FailedOutcome(task[f]),
                                  ![p].status = "raised"]
    /\ task' = [f \in Fetchers |->
                   IF task[f].st \in {"done", "failed"} THEN task[f]
                   ELSE [task[f] EXCEPT !.st = "abandoned"]]
    /\ Raise(p)
    /\ UNCHANGED <<procs, raced, local, shared, hf_login, ran, reran, flatVars, booksVars,
                   logins, lastWrite>>

(***************************************************************************)
(* BookCategoriesDataset._fetch_dataset: the category tree flattener.      *)
(***************************************************************************)
\* parent_slug=None
Null == <<>>

\* A tree shape is the sequence of the shapes of its children; Shapes(n) is
\* the set of the sequences of tree shapes with n nodes in all.
RECURSIVE Shapes(_)
Shapes(n) ==
    IF n = 0 THEN {<<>>}
    ELSE UNION {{<<kids>> \o rest : kids \in Shapes(k - 1), rest \in Shapes(n - k)} :
                   k \in 1..n}

\* A category node of the response.  The slug of a node is its path from
\* the response list, so slugs are unique; a missing, null or empty
\* "subcategory" is the empty sequence.
RECURSIVE Category(_, _)
Category(shape, path) ==
    [title |-> <<"title">> \o path,
     slug |-> path,
     image |-> <<"image">> \o path,
     subcategory |-> [i \in 1..Len(shape) |-> Category(shape[i], Append(path, i))]]

\* response.json()["data"], line 151.
Responses ==
    UNION {{[r \in 1..Len(shapes) |-> Category(shapes[r], <<r>>)] :
                shapes \in Shapes(n)} : n \in 0..MaxNodes}

\* variant: the children are emitted before their parent.
RECURSIVE flatten_postorder(_, _, _), FlattenChildrenPost(_, _, _, _)
flatten_postorder(category, parent_slug, depth) ==
    FlattenChildrenPost(category.subcategory, 1, category.slug, depth + 1)
    \o <<[title |-> category.title, slug |-> category.slug,
          image |-> category.image, parent_slug |-> parent_slug,
          depth |-> depth]>>

FlattenChildrenPost(subs, i, parent_slug, depth) ==
    IF i > Len(subs) THEN <<>>
    ELSE flatten_postorder(subs[i], parent_slug, depth)
         \o FlattenChildrenPost(subs, i + 1, parent_slug, depth)

\* lines 153-170.
RECURSIVE flatten_subcategories(_, _, _), FlattenChildren(_, _, _, _)
RECURSIVE FlattenChildren_SameDepth(_, _, _, _)
flatten_subcategories(category, parent_slug, depth) ==
    <<[title |-> category.title, slug |-> category.slug,
       image |-> category.image, parent_slug |-> parent_slug,
       depth |-> depth]>>
    \o FlattenChildren(category.subcategory, 1, category.slug, depth + 1)

\* lines 165-168: the loop over category["subcategory"].
\* variant: the children are given the depth of their parent.
FlattenChildren_SameDepth(subs, i, parent_slug, depth) ==
    IF i > Len(subs) THEN <<>>
    ELSE flatten_subcategories(subs[i], parent_slug, depth - 1)
         \o FlattenChildren_SameDepth(subs, i + 1, parent_slug, depth)

\* lines 163-168: the loop over category["subcategory"].
FlattenChildren(subs, i, parent_slug, depth) ==
    IF i > Len(subs) THEN <<>>
    ELSE flatten_subcategories(subs[i], parent_slug, depth)
         \o FlattenChildren(subs, i + 1, parent_slug, depth)

\* lines 172-174: one iteration of the loop over the root categories.
FlattenNext ==
    /\ idx < Len(categories)
    /\ all_categories' =
          all_categories \o flatten_subcategories(categories[idx + 1], Null, 0)
    /\ idx' = idx + 1
    /\ UNCHANGED <<cacheVars, task, categories, booksVars>>

(***************************************************************************)
(* BooksDataset._fetch_dataset from line 249 on: the gather over            *)
(* fetch_books_for_category(slug), with the description fetches behind      *)
(* description_semaphore.  category_slugs is an input here: line 245        *)
(* raises before the code below is reached from Dataset.get().  The page    *)
(* loop of lines 214-230 is the one of fetch_all, taken as one step.        *)
(***************************************************************************)
Cats == {"a", "b"}
category_slugs == <<"a", "b">>

IdleBooks == [st |-> "idle", books |-> <<>>, desc |-> <<>>, completed |-> <<>>]
NoResult == [st |-> "idle", df |-> NoTable]

\* The catalogs of the origin: na books under "a", nb under "b"; with
\* overlap the last book of "a" is also the first book of "b".
Catalog(na, nb, overlap) ==
    LET base == IF overlap /\ na > 0 THEN na - 1 ELSE na
    IN [c \in Cats |-> IF c = "a" THEN [i \in 1..na |-> i]
                                  ELSE [i \in 1..nb |-> base + i]]

SmallCatalogs ==
    {Catalog(na, nb, ov) : na \in 0..MaxBooks, nb \in 0..MaxBooks, ov \in BOOLEAN}

\* More books than the limiter has permits, over two categories.
LargeCatalog ==
    Catalog(SemaphoreLimit \div 2 + OverLimit, SemaphoreLimit \div 2, FALSE)

Requests(cat) == UNION {{<<c, i>> : i \in 1..Len(cat[c])} : c \in Cats}

\* A record of data["data"] of the products listing.
Book(b) == [product_meta_id |-> b, slug |-> <<"book", b>>]

\* lines 232-234: book["category_slug"] = category_slug
Tagged(book, c) ==
    [product_meta_id |-> book.product_meta_id, slug |-> book.slug,
     category_slug |-> c]

\* data["pageProps"]["productDetailMeta"]["description"] of a product.
Description(slug) == <<"description", slug>>

\* lines 202-210: the description, or None when anything raised.
DescriptionResult(slug, outcome) ==
    IF outcome = "ok" THEN Description(slug) ELSE Null

\* lines 239-240: book["description"] = description
Described(book, d) ==
    [product_meta_id |-> book.product_meta_id, slug |-> book.slug,
     category_slug |-> book.category_slug, description |-> d]

\* line 261: rename product_meta_id to id.
Row(book) ==
    [id |-> book.product_meta_id, slug |-> book.slug,
     category_slug |-> book.category_slug, description |-> book.description]

\* variant: the limiter lets every fetch through.
CanAcquire_Always(perm, w) == TRUE

\* asyncio.Semaphore.acquire without waiting: a permit is free and nobody
\* is queued.
CanAcquire(perm, w) == perm > 0 /\ w = <<>>

\* lines 237-238: the description tasks of a category start in list order;
\* each takes a permit and issues its request, or queues on the semaphore.
RECURSIVE StartTasks(_, _, _, _)
StartTasks(c, i, n, s) ==
    IF i > n THEN s
    ELSE IF CanAcquire(s.perm, s.w)
         THEN StartTasks(c, i + 1, n,
                  [perm |-> s.perm - 1, w |-> s.w,
                   desc |-> Append(s.desc, "inflight")])
         ELSE StartTasks(c, i + 1, n,
                  [perm |-> s.perm, w |-> Append(s.w, <<c, i>>),
                   desc |-> Append(s.desc, "queued")])

\* lines 198 and 250-251: the semaphore is created and every category's
\* coroutine starts with its request for page 1.
BooksGatherStart ==
    /\ bresult.st = "idle"
    /\ bresult' = [bresult EXCEPT !.st = "running"]
    /\ btask' = [c \in Cats |-> [IdleBooks EXCEPT !.st = "pages"]]
    /\ permits' = SemaphoreLimit
    /\ waiters' = <<>>
    /\ UNCHANGED <<cacheVars, task, flatVars, catalog, mayFail>>

\* lines 214-238: the pages of a category are in (or a page failed), the
\* books are tagged and their description fetches are started.
PagesFetched(c) ==
    /\ btask[c].st = "pages"
    /\ \E outcome \in PageOutcomes :
          IF outcome = "ok"
          THEN LET books == [i \in 1..Len(catalog[c]) |->
                                Tagged(Book(catalog[c][i]), c)]
                   s == StartTasks(c, 1, Len(books),
                            [perm |-> permits, w |-> waiters, desc |-> <<>>])
               IN /\ btask' = [btask EXCEPT ![c] =
                         [st |-> "descriptions", books |-> books, desc |-> s.desc,
                          completed |-> <<>>]]
                  /\ permits' = s.perm
                  /\ waiters' = s.w
          ELSE /\ btask' = [btask EXCEPT ![c].st = "failed"]
               /\ UNCHANGED <<permits, waiters>>
    /\ UNCHANGED <<cacheVars, task, flatVars, catalog, mayFail, bresult>>

\* line 201: the oldest waiter gets the permit that was released and
\* issues its request.
AcquireNext ==
    /\ waiters # <<>>
    /\ permits > 0
    /\ LET c == Head(waiters)[1]
           i == Head(waiters)[2]
       IN btask' = [btask EXCEPT ![c].desc[i] = "inflight"]
    /\ permits' = permits - 1
    /\ waiters' = Tail(waiters)
    /\ UNCHANGED <<cacheVars, task, flatVars, catalog, mayFail, bresult>>

\* The order in which the description fetches of a category completed,
\* kept for the categories of at most MaxOrdered books.
Completed(t, i) ==
    IF Len(t.books) <= MaxOrdered THEN Append(t.completed, i) ELSE t.completed

\* variant: no handler around the request, the exception leaves the task
\* and fails the gather of the category.
DescriptionComplete_Propagates(c, i) ==
    /\ btask[c].st = "descriptions"
    /\ i \in 1..Len(btask[c].desc)
    /\ btask[c].desc[i] = "inflight"
    /\ \E outcome \in {"ok"} \cup (IF <<c, i>> \in mayFail THEN {"failed"} ELSE {}) :
          btask' = [btask EXCEPT ![c].desc[i] = outcome,
                                 ![c].completed = Completed(btask[c], i),
                                 ![c].st = IF outcome = "ok" THEN @ ELSE "failed"]
    /\ permits' = permits + 1
    /\ UNCHANGED <<cacheVars, task, flatVars, catalog, mayFail, waiters, bresult>>

\* variant: the permit is released only when the request succeeded.
DescriptionComplete_Leaks(c, i) ==
    /\ btask[c].st = "descriptions"
    /\ i \in 1..Len(btask[c].desc)
    /\ btask[c].desc[i] = "inflight"
    /\ \E outcome \in {"ok"} \cup (IF <<c, i>> \in mayFail THEN {"failed"} ELSE {}) :
          /\ btask' = [btask EXCEPT ![c].desc[i] = outcome,
                                    ![c].completed = Completed(btask[c], i)]
          /\ permits' = IF outcome = "ok" THEN permits + 1 ELSE permits
    /\ UNCHANGED <<cacheVars, task, flatVars, catalog, mayFail, waiters, bresult>>

\* lines 201-210: a description request completes; the handler turns any
\* exception into None, and leaving the async with releases the permit.
DescriptionComplete(c, i) ==
    /\ btask[c].st = "descriptions"
    /\ i \in 1..Len(btask[c].desc)
    /\ btask[c].desc[i] = "inflight"
    /\ \E outcome \in {"ok"} \cup (IF <<c, i>> \in mayFail THEN {"failed"} ELSE {}) :
          btask' = [btask EXCEPT ![c].desc[i] = outcome,
                                 ![c].completed = Completed(btask[c], i)]
    /\ permits' = permits + 1
    /\ UNCHANGED <<cacheVars, task, flatVars, catalog, mayFail, waiters, bresult>>

\* variant: the results are taken in the order in which the fetches
\* completed.
GatherDescriptions_AsCompleted(t) ==
    LET order == IF Len(t.completed) = Len(t.desc) THEN t.completed
                 ELSE [i \in 1..Len(t.desc) |-> i]
    IN [j \in 1..Len(t.desc) |->
           DescriptionResult(t.books[order[j]].slug, t.desc[order[j]])]

\* line 238: asyncio.gather returns the results in the order of
\* description_tasks, which is the order of books.
GatherDescriptions(t) ==
    [i \in 1..Len(t.desc) |-> DescriptionResult(t.books[i].slug, t.desc[i])]

\* lines 238-242: the gather of the descriptions returned; they are zipped
\* with the books and the list is returned.
CategoryDone(c) ==
    /\ btask[c].st = "descriptions"
    /\ \A i \in 1..Len(btask[c].desc) : btask[c].desc[i] \in {"ok", "failed"}
    /\ LET descriptions == GatherDescriptions(btask[c])
       IN btask' = [btask EXCEPT
              ![c].books = [i \in 1..Len(@) |-> Described(@[i], descriptions[i])],
              ![c].st = "done"]
    /\ UNCHANGED <<cacheVars, task, flatVars, catalog, mayFail, waiters, permits,
                   bresult>>

\* lines 254-256: all_books.extend(books) for each list, in the order of
\* category_slugs.
RECURSIVE AllBooks(_)
AllBooks(n) ==
    IF n = 0 THEN <<>> ELSE AllBooks(n - 1) \o btask[category_slugs[n]].books

\* lines 251-261: every category returned its list; the table is built.
BooksJoin ==
    /\ bresult.st = "running"
    /\ \A c \in Cats : btask[c].st = "done"
    /\ LET all_books == AllBooks(Len(category_slugs))
       IN bresult' = [st |-> "done",
                      df |-> DataFrame([i \in 1..Len(all_books) |-> Row(all_books[i])])]
    /\ UNCHANGED <<cacheVars, task, flatVars, catalog, mayFail, btask, waiters,
                   permits>>

\* line 251: the gather raises as soon as one category's coroutine raised.
BooksFail ==
    /\ bresult.st = "running"
    /\ \E c \in Cats : btask[c].st = "failed"
    /\ bresult' = [bresult EXCEPT !.st = "raised"]
    /\ btask' = [c \in Cats |->
                    IF btask[c].st \in {"done", "failed"} THEN btask[c]
                    ELSE [btask[c] EXCEPT !.st = "abandoned"]]
    /\ UNCHANGED <<cacheVars, task, flatVars, catalog, mayFail, waiters, permits>>

(***************************************************************************)
(* The tiered cache store: one process, any snapshots left on the shared   *)
(* store or in the temp directory by earlier sessions.                     *)
(***************************************************************************)
Init ==
    /\ procs = {"p1"}
    /\ raced = "none"
    /\ local \in [Kinds -> {NoTable, StaleTable}]
    /\ shared \in [Kinds -> {NoTable, StaleTable}]
    /\ hf_login = [p \in AllProcs |-> FALSE]
    /\ logins = [p \in AllProcs |-> [calls |-> 0, ok |-> 0]]
    /\ lastWrite = [k \in Kinds |-> NoWrite]
    /\ memo = [p \in AllProcs |-> [k \in Kinds |-> NoTable]]
    /\ ran = [p \in AllProcs |-> [k \in Kinds |-> FALSE]]
    /\ reran = [p \in AllProcs |-> [k \in Kinds |-> FALSE]]
    /\ pc = [p \in AllProcs |-> "idle"]
    /\ call = [p \in AllProcs |-> NoCall]
    /\ task = [f \in Fetchers |-> IdleTask]
    /\ categories = <<>>
    /\ idx = 0
    /\ all_categories = <<>>
    /\ catalog = [c \in Cats |-> <<>>]
    /\ mayFail = {}
    /\ btask = [c \in Cats |-> IdleBooks]
    /\ waiters = <<>>
    /\ permits = SemaphoreLimit
    /\ bresult = NoResult

Next ==
    \/ \E p \in AllProcs, k \in Kinds : Accessor(p, k)
    \/ \E p \in AllProcs : GetLocal(p)
    \/ \E p \in AllProcs : CheckHf(p)
    \/ \E p \in AllProcs : DownloadFromHf(p)
    \/ \E p \in AllProcs : SaveDownloaded(p)
    \/ \E p \in AllProcs : FetchDataset(p)
    \/ \E p \in AllProcs : SaveFetched(p)
    \/ \E p \in AllProcs : Login(p)
    \/ \E p \in AllProcs : UploadToHf(p)

vars == <<cacheVars, task, flatVars, booksVars>>

Spec == Init /\ [][Next]_vars

(***************************************************************************)
(* The stores dataset on a machine with no snapshot anywhere: every        *)
(* get_store_locations() that is not memoized reaches the origin tier.     *)
(***************************************************************************)
InitFetch ==
    /\ procs = {"p1"}
    /\ raced = "none"
    /\ local = [k \in Kinds |-> NoTable]
    /\ shared = [k \in Kinds |-> NoTable]
    /\ hf_login = [p \in AllProcs |-> FALSE]
    /\ logins = [p \in AllProcs |-> [calls |-> 0, ok |-> 0]]
    /\ lastWrite = [k \in Kinds |-> NoWrite]
    /\ memo = [p \in AllProcs |-> [k \in Kinds |-> NoTable]]
    /\ ran = [p \in AllProcs |-> [k \in Kinds |-> FALSE]]
    /\ reran = [p \in AllProcs |-> [k \in Kinds |-> FALSE]]
    /\ pc = [p \in AllProcs |-> "idle"]
    /\ call = [p \in AllProcs |-> NoCall]
    /\ task = [f \in Fetchers |-> IdleTask]
    /\ categories = <<>>
    /\ idx = 0
    /\ all_categories = <<>>
    /\ catalog = [c \in Cats |-> <<>>]
    /\ mayFail = {}
    /\ btask = [c \in Cats |-> IdleBooks]
    /\ waiters = <<>>
    /\ permits = SemaphoreLimit
    /\ bresult = NoResult

NextFetch ==
    \/ \E p \in AllProcs : Accessor(p, "stores")
    \/ \E p \in AllProcs : GetLocal(p)
    \/ \E p \in AllProcs : CheckHf(p)
    \/ \E p \in AllProcs : StoresFetchStart(p)
    \/ \E f \in Fetchers : Page1Response(f)
    \/ \E f \in Fetchers, pg \in 2..MaxPages : PageComplete(f, pg)
    \/ \E f \in Fetchers : MergePages(f)
    \/ \E p \in AllProcs : StoresFetchJoin(p)
    \/ \E p \in AllProcs : StoresFetchFail(p)
    \/ \E p \in AllProcs : SaveFetched(p)
    \/ \E p \in AllProcs : Login(p)
    \/ \E p \in AllProcs : UploadToHf(p)

SpecFetch == InitFetch /\ [][NextFetch]_vars

(***************************************************************************)
(* The flattener applied to every category tree within the bounds.         *)
(***************************************************************************)
InitFlat ==
    /\ procs = {}
    /\ raced = "none"
    /\ local = [k \in Kinds |-> NoTable]
    /\ shared = [k \in Kinds |-> NoTable]
    /\ hf_login = [p \in AllProcs |-> FALSE]
    /\ logins = [p \in AllProcs |-> [calls |-> 0, ok |-> 0]]
    /\ lastWrite = [k \in Kinds |-> NoWrite]
    /\ memo = [p \in AllProcs |-> [k \in Kinds |-> NoTable]]
    /\ ran = [p \in AllProcs |-> [k \in Kinds |-> FALSE]]
    /\ reran = [p \in AllProcs |-> [k \in Kinds |-> FALSE]]
    /\ pc = [p \in AllProcs |-> "idle"]
    /\ call = [p \in AllProcs |-> NoCall]
    /\ task = [f \in Fetchers |-> IdleTask]
    /\ categories \in Responses
    /\ idx = 0
    /\ all_categories = <<>>
    /\ catalog = [c \in Cats |-> <<>>]
    /\ mayFail = {}
    /\ btask = [c \in Cats |-> IdleBooks]
    /\ waiters = <<>>
    /\ permits = SemaphoreLimit
    /\ bresult = NoResult

NextFlat == FlattenNext

SpecFlat == InitFlat /\ [][NextFlat]_vars

(***************************************************************************)
(* The books assembly on every catalog within the bounds.                  *)
(***************************************************************************)
InitBooks ==
    /\ procs = {}
    /\ raced = "none"
    /\ local = [k \in Kinds |-> NoTable]
    /\ shared = [k \in Kinds |-> NoTable]
    /\ hf_login = [p \in AllProcs |-> FALSE]
    /\ logins = [p \in AllProcs |-> [calls |-> 0, ok |-> 0]]
    /\ lastWrite = [k \in Kinds |-> NoWrite]
    /\ memo = [p \in AllProcs |-> [k \in Kinds |-> NoTable]]
    /\ ran = [p \in AllProcs |-> [k \in Kinds |-> FALSE]]
    /\ reran = [p \in AllProcs |-> [k \in Kinds |-> FALSE]]
    /\ pc = [p \in AllProcs |-> "idle"]
    /\ call = [p \in AllProcs |-> NoCall]
    /\ task = [f \in Fetchers |-> IdleTask]
    /\ categories = <<>>
    /\ idx = 0
    /\ all_categories = <<>>
    /\ \/ /\ catalog \in SmallCatalogs
          /\ mayFail = Requests(catalog)
       \/ /\ catalog = LargeCatalog
          /\ mayFail = {<<c, 1>> : c \in Cats}
    /\ btask = [c \in Cats |-> IdleBooks]
    /\ waiters = <<>>
    /\ permits = SemaphoreLimit
    /\ bresult = NoResult

NextBooks ==
    \/ BooksGatherStart
    \/ \E c \in Cats : PagesFetched(c)
    \/ AcquireNext
    \/ \E c \in Cats, i \in 1..MaxBooks + SemaphoreLimit : DescriptionComplete(c, i)
    \/ \E c \in Cats : CategoryDone(c)
    \/ BooksJoin
    \/ BooksFail

SpecBooks == InitBooks /\ [][NextBooks]_vars

\* The event loop runs a coroutine that is ready, and every request
\* completes or times out (httpx.Timeout, line 19): some enabled step of the
\* fetch is eventually taken.
SpecBooksFair == SpecBooks /\ WF_vars(NextBooks)

(***************************************************************************)
(* tiered cache store: two processes.  Each has its own hf_login and its   *)
(* own accessor memo; the snapshot files and the shared store are common.  *)
(* Both ask for the same kind; no local snapshot exists at the start, the  *)
(* shared store may hold one.                                              *)
(***************************************************************************)
InitRace ==
    /\ procs = AllProcs
    /\ raced \in Kinds
    /\ local = [k \in Kinds |-> NoTable]
    /\ shared \in {sh \in [Kinds -> {NoTable, StaleTable}] :
                      \A k \in Kinds \ {raced} : sh[k] = NoTable}
    /\ hf_login = [p \in AllProcs |-> FALSE]
    /\ logins = [p \in AllProcs |-> [calls |-> 0, ok |-> 0]]
    /\ lastWrite = [k \in Kinds |-> NoWrite]
    /\ memo = [p \in AllProcs |-> [k \in Kinds |-> NoTable]]
    /\ ran = [p \in AllProcs |-> [k \in Kinds |-> FALSE]]
    /\ reran = [p \in AllProcs |-> [k \in Kinds |-> FALSE]]
    /\ pc = [p \in AllProcs |-> "idle"]
    /\ call = [p \in AllProcs |-> NoCall]
    /\ task = [f \in Fetchers |-> IdleTask]
    /\ categories = <<>>
    /\ idx = 0
    /\ all_categories = <<>>
    /\ catalog = [c \in Cats |-> <<>>]
    /\ mayFail = {}
    /\ btask = [c \in Cats |-> IdleBooks]
    /\ waiters = <<>>
    /\ permits = SemaphoreLimit
    /\ bresult = NoResult

NextRace ==
    \/ \E p \in AllProcs : Accessor(p, raced)
    \/ \E p \in AllProcs : GetLocal(p)
    \/ \E p \in AllProcs : CheckHf(p)
    \/ \E p \in AllProcs : DownloadFromHf(p)
    \/ \E p \in AllProcs : SaveDownloaded(p)
    \/ \E p \in AllProcs : FetchDataset(p)
    \/ \E p \in AllProcs : SaveFetched(p)
    \/ \E p \in AllProcs : Login(p)
    \/ \E p \in AllProcs : UploadToHf(p)

SpecRace == InitRace /\ [][NextRace]_vars

Finished(c) == c.viaGet /\ c.status \in {"returned", "raised"}

\* Failures that come from the environment (network, credentials, payload)
\* and not from the program.
EnvCauses == {"network", "decode", "auth"}

(***************************************************************************)
(* Claims on the tiered cache store.                                       *)
(***************************************************************************)
\* C1: a Dataset.get() that finds the local snapshot file returns the table
\* loaded from that file and contacts neither the shared remote store
\* (existence check, download, login, publish) nor the origin API.
C1_LocalHitShortCircuits ==
    \A p \in AllProcs :
        (call[p].viaGet /\ call[p].hadLocal) =>
            /\ call[p].status = "returned"
            /\ call[p].df # NoTable
            /\ call[p].df = local[call[p].kind]
            /\ call[p].ops = <<"load_local">>
            /\ ~Has(call[p].ops, RemoteOps \cup OriginOps)

C1_Witness ==
    \E p \in AllProcs :
        /\ call[p].viaGet /\ call[p].hadLocal /\ call[p].status = "returned"
        /\ call[p].kind = "books"
        /\ shared["books"] = NoTable

\* C2 as stated: a Dataset.get() that starts with no local snapshot while the
\* shared snapshot exists never contacts origin, returns the downloaded
\* table, and leaves a local snapshot holding that table.
C2_AsStated ==
    \A p \in AllProcs :
        (Finished(call[p]) /\ ~call[p].hadLocal /\ call[p].hadShared) =>
            /\ ~Has(call[p].ops, OriginOps)
            /\ call[p].status = "returned"
            /\ call[p].df = shared[call[p].kind]
            /\ local[call[p].kind] = call[p].df

\* C2 amended: a Dataset.get() that starts with no local snapshot and whose
\* shared-store existence check succeeds never contacts origin; it either
\* fails with the download error, or returns the downloaded table after
\* writing it to the local snapshot (download, then local write, then
\* return).
C2_SharedHit ==
    \A p \in AllProcs :
        (call[p].viaGet /\ call[p].check = "ok") =>
            /\ ~call[p].hadLocal /\ call[p].hadShared
            /\ ~Has(call[p].ops, OriginOps)
            /\ call[p].status = "raised" => call[p].failed = "hf_download"
            /\ call[p].status = "returned" =>
                  /\ call[p].df = shared[call[p].kind]
                  /\ call[p].df # NoTable
                  /\ local[call[p].kind] = call[p].df
                  /\ call[p].ops =
                        <<"load_local", "hf_check", "hf_download", "save_local">>

C2_Witness ==
    \E p \in AllProcs :
        /\ call[p].viaGet /\ call[p].check = "ok"
        /\ call[p].status = "returned"
        /\ local[call[p].kind] = call[p].df

\* C3: a Dataset.get() that starts with neither a local nor a shared
\* snapshot invokes _fetch_dataset exactly once and leaves both the local
\* and the shared snapshot holding the fetched table.  Stated for the calls
\* in which no request failed for a reason of the environment.
C3_OriginPopulatesBothTiers ==
    \A p \in AllProcs :
        (/\ Finished(call[p])
         /\ ~call[p].hadLocal /\ ~call[p].hadShared
         /\ call[p].cause \notin EnvCauses) =>
            /\ Count(call[p].ops, "origin_fetch") = 1
            /\ call[p].df # NoTable
            /\ local[call[p].kind] = call[p].df
            /\ shared[call[p].kind] = call[p].df

\* C4: once the origin fetch succeeded, a failure of the publish step does
\* not fail get(): the call returns the fetched table.
C4_PublishFailureIsSoft ==
    \A p \in AllProcs :
        (Finished(call[p]) /\ call[p].failed = "publish") =>
            /\ call[p].status = "returned"
            /\ call[p].df # NoTable

\* C5: with no local snapshot, an existence check that fails with any error
\* is treated as "absent": no error is raised for the check and get()
\* proceeds to the origin fetch tier.
C5_CheckFailureIsSoftMiss ==
    \A p \in AllProcs :
        (call[p].viaGet /\ call[p].check \in {"missing", "network", "auth"}) =>
            /\ ~call[p].hadLocal
            /\ call[p].failed # "hf_check"
            /\ ~Has(call[p].ops, {"hf_download"})
            /\ pc[p] = "fetch" \/ Has(call[p].ops, OriginOps)

C5_Witness ==
    \E p \in AllProcs :
        /\ call[p].viaGet /\ call[p].check = "auth" /\ call[p].hadShared
        /\ Has(call[p].ops, OriginOps)
        /\ call[p].status = "returned"

\* C6 as stated: Dataset.get() runs at most once per accessor per process.
C6_AsStated ==
    \A p \in AllProcs, k \in Kinds : ~reran[p][k]

\* C6 amended: a call of an accessor enters Dataset.get() only while nothing
\* is memoized for it; once a call has returned a table, the entry stays and
\* every later call of that accessor returns that table without entering
\* Dataset.get() again.
C6_MemoizedAfterSuccess ==
    [][\A p \in AllProcs, k \in Kinds :
          /\ (ran'[p][k] # ran[p][k] \/ reran'[p][k] # reran[p][k]) =>
                memo[p][k] = NoTable
          /\ (pc[p] = "idle" /\ pc'[p] = "get" /\ call'[p].kind = k) =>
                memo[p][k] = NoTable
          /\ memo[p][k] # NoTable =>
                /\ memo'[p][k] = memo[p][k]
                /\ (call'[p] # call[p] /\ call'[p].kind = k) =>
                      /\ call'[p].status = "returned"
                      /\ call'[p].df = memo[p][k]
                      /\ ~call'[p].viaGet
                      /\ call'[p].ops = <<>>]_vars

C6_Witness ==
    \E p \in AllProcs :
        /\ call[p].kind = "stores" /\ ~call[p].viaGet
        /\ call[p].status = "returned"
        /\ call[p].df = memo[p]["stores"]
        /\ ran[p]["stores"] /\ ~reran[p]["stores"]

(***************************************************************************)
(* Claims on the paginated fetch.                                          *)
(***************************************************************************)
\* The records of pages 1..n of listing f, in page-number order.
RECURSIVE PagesInOrder(_, _)
PagesInOrder(f, n) ==
    IF n = 0 THEN <<>> ELSE PagesInOrder(f, n - 1) \o Records(f, n)

Range(seq) == {seq[i] : i \in 1..Len(seq)}

HasFailedPage(t) == \E pg \in 1..MaxPages : t.out[pg] \in {"network", "decode"}

\* C7: a paginated fetch in which every request succeeded returns exactly
\* the records of page 1, 2, ..., N in page-number order, whatever the order
\* in which the requests for pages 2..N completed, and nothing is appended
\* to the records of page 1 before all of pages 2..N have completed.
C7_PageOrder ==
    \A f \in Fetchers :
        /\ task[f].st = "done" =>
              task[f].stores = PagesInOrder(f, task[f].total)
        /\ Len(task[f].stores) > Len(Page1Data(f, task[f].total)) =>
              /\ task[f].pending = {}
              /\ Range(task[f].arrived) = 2..task[f].total

C7_Witness ==
    \E f \in Fetchers :
        /\ task[f].st = "done"
        /\ task[f].total = 3
        /\ task[f].arrived = <<3, 2>>
        /\ Len(task[f].stores) = 3 * PageRecs

\* C8: once the first response is decoded, the number of list requests
\* issued for the resource is max(1, total_page); with total_page = 1 the
\* request for page 1 is the only one and the fan-out is not entered.
C8_RequestCount ==
    \A f \in Fetchers :
        task[f].out[1] = "ok" =>
            /\ task[f].issued = IF task[f].total > 1 THEN task[f].total ELSE 1
            /\ task[f].fanout <=> task[f].total > 1
            /\ task[f].total <= 1 =>
                  /\ task[f].arrived = <<>> /\ task[f].pending = {}
                  /\ task[f].st \in {"done", "abandoned"}

C8_Witness ==
    \E f \in Fetchers :
        /\ task[f].st = "done" /\ task[f].total = 1
        /\ task[f].issued = 1 /\ ~task[f].fanout
        /\ task[f].stores = Records(f, 1)

\* C9: when the request or the decoding of any page fails, the resource
\* fetch never returns a record list (it fails, or was left behind by a
\* failure of the other listing), and the enclosing _fetch_dataset and
\* Dataset.get() fail with it: get() raises out of the origin fetch, no
\* table is built and nothing is written or memoized.
C9_PageFailurePropagates ==
    /\ \A f \in Fetchers :
          HasFailedPage(task[f]) =>
              task[f].st \in {"gather", "merge", "failed", "abandoned"}
    /\ \A p \in AllProcs :
          (Finished(call[p]) /\ \E f \in Fetchers : HasFailedPage(task[f])) =>
              /\ call[p].status = "raised"
              /\ call[p].failed = "origin_fetch"
              /\ call[p].df = NoTable
              /\ local["stores"] = NoTable
              /\ shared["stores"] = NoTable
              /\ memo[p]["stores"] = NoTable
    /\ \A p \in AllProcs :
          pc[p] \in {"save_fetched", "login", "upload"} =>
              \A f \in Fetchers : ~HasFailedPage(task[f])

C9_Witness ==
    \E p \in AllProcs, f \in Fetchers :
        /\ call[p].status = "raised" /\ call[p].failed = "origin_fetch"
        /\ task[f].total = 3
        /\ task[f].out[2] = "ok" /\ task[f].out[3] = "decode"
        /\ task[f].st = "failed"

(***************************************************************************)
(* Claims on the category tree flattener.                                  *)
(***************************************************************************)
\* The slugs of the nodes of a tree.
RECURSIVE NodesOf(_)
NodesOf(category) ==
    {category.slug} \cup
    UNION {NodesOf(category.subcategory[i]) : i \in 1..Len(category.subcategory)}

\* Paths in depth-first pre-order: a node comes before its descendants, and
\* the subtree of an earlier sibling before the subtree of a later one.
PreOrderBefore(a, b) ==
    \/ Len(a) < Len(b) /\ SubSeq(b, 1, Len(a)) = a
    \/ \E i \in 1..Len(a) :
          /\ i <= Len(b)
          /\ SubSeq(a, 1, i - 1) = SubSeq(b, 1, i - 1)
          /\ a[i] < b[i]

ParentOf(slug) == IF Len(slug) = 1 THEN Null ELSE SubSeq(slug, 1, Len(slug) - 1)

\* root A with children [B, C], where B has the child D.
A == <<1>>
B == <<1, 1>>
C == <<1, 2>>
D == <<1, 1, 1>>
ExampleTree == <<Category(<< << <<>> >>, <<>> >>, A)>>

Column(rows, col) == [i \in 1..Len(rows) |-> rows[i][col]]

\* C10: the flattener emits the records of the trees in depth-first
\* pre-order (a node before its children, children in input order), one
\* record per node, with depth 0 and a null parent_slug for a root and
\* parent depth + 1 and the parent's slug for a child; for root A with
\* children [B, C] where B has the child D the output is [A, B, D, C] with
\* depths [0, 1, 2, 1] and parent_slugs [null, A, B, A].
C10_PreOrderFlattening ==
    LET rows == all_categories
        done == UNION {NodesOf(categories[r]) : r \in 1..idx}
    IN /\ Range(Column(rows, "slug")) = done
       /\ Len(rows) = Cardinality(done)
       /\ \A i, j \in 1..Len(rows) :
             i < j => PreOrderBefore(rows[i].slug, rows[j].slug)
       /\ \A i \in 1..Len(rows) :
             /\ rows[i].depth = Len(rows[i].slug) - 1
             /\ rows[i].parent_slug = ParentOf(rows[i].slug)
             /\ rows[i].title = <<"title">> \o rows[i].slug
             /\ rows[i].image = <<"image">> \o rows[i].slug
       /\ (categories = ExampleTree /\ idx = 1) =>
             /\ Column(rows, "slug") = <<A, B, D, C>>
             /\ Column(rows, "depth") = <<0, 1, 2, 1>>
             /\ Column(rows, "parent_slug") = <<Null, A, B, A>>

C10_Witness ==
    /\ categories = ExampleTree
    /\ idx = 1
    /\ Column(all_categories, "slug") = <<A, B, D, C>>

(***************************************************************************)
(* Claims on the books assembly.                                           *)
(***************************************************************************)
Rows(r) == IF r.st = "done" THEN r.df[1] ELSE <<>>

DescState(st) == {r \in Requests(catalog) :
                     /\ r[2] <= Len(btask[r[1]].desc)
                     /\ btask[r[1]].desc[r[2]] = st}

\* C11: failed description fetches never fail the batch: a category fails
\* only on its pages, a category that is done has one record per listed
\* book, with a null description exactly for the books whose fetch failed
\* and the fetched description for the others, and the table has one row
\* per fetched book.
C11_DescriptionFailuresTolerated ==
    /\ \A c \in Cats :
          /\ btask[c].st = "failed" => btask[c].desc = <<>>
          /\ btask[c].st = "done" =>
                /\ Len(btask[c].books) = Len(catalog[c])
                /\ \A i \in 1..Len(catalog[c]) :
                      /\ btask[c].books[i].slug = Book(catalog[c][i]).slug
                      /\ btask[c].books[i].description =
                            IF btask[c].desc[i] = "failed" THEN Null
                            ELSE Description(Book(catalog[c][i]).slug)
    /\ bresult.st = "done" =>
          /\ Len(Rows(bresult)) = Len(catalog["a"]) + Len(catalog["b"])
          /\ Cardinality({i \in 1..Len(Rows(bresult)) :
                             Rows(bresult)[i].description = Null})
                = Cardinality(DescState("failed"))

\* one failure out of five: five rows, four with a description, one null.
C11_Witness ==
    /\ bresult.st = "done"
    /\ Len(Rows(bresult)) = 5
    /\ Cardinality(DescState("failed")) = 1
    /\ Cardinality({i \in 1..5 : Rows(bresult)[i].description = Null}) = 1
    /\ Cardinality({i \in 1..5 : Rows(bresult)[i].description # Null}) = 4

\* C12: at every moment at most 10 description requests are in flight,
\* counted over all the categories of the fetch.
C12_DescriptionLimit ==
    /\ Cardinality(DescState("inflight")) <= SemaphoreLimit
    /\ permits = SemaphoreLimit - Cardinality(DescState("inflight"))
    /\ \A i \in 1..Len(waiters) :
          btask[waiters[i][1]].desc[waiters[i][2]] = "queued"

C12_Witness ==
    /\ Cardinality(DescState("inflight")) = SemaphoreLimit
    /\ waiters # <<>>
    /\ \A c \in Cats : \E r \in DescState("inflight") : r[1] = c

C13_AsStated ==
    \A p \in procs : logins[p].calls <= 1

\* The operations of a get() that has reached the publish attempt.
PublishPath == <<"load_local", "hf_check", "origin_fetch", "save_local">>

\* C13: across the get() calls of one process the login succeeds at most
\* once and is never called again after it succeeded (hf_login records it);
\* it is called only as the first step of a publish attempt, after the
\* origin fetch and the local write of the same call, never on a call served
\* from the local or the shared tier.  A login that raises is called again
\* by the next publish attempt.
C13_LoginOncePerProcess ==
    \A p \in procs :
        /\ logins[p].ok <= 1
        /\ hf_login[p] <=> logins[p].ok = 1
        /\ hf_login[p] => pc[p] # "login"
        /\ pc[p] = "login" => call[p].ops = PublishPath
        /\ Has(call[p].ops, {"login"}) =>
               /\ Len(call[p].ops) > Len(PublishPath)
               /\ SubSeq(call[p].ops, 1, Len(PublishPath)) = PublishPath
               /\ call[p].ops[Len(PublishPath) + 1] = "login"
               /\ Count(call[p].ops, "login") = 1

\* A second publish attempt of a process that is logged in skips the login.
C13_Witness ==
    \E p \in procs :
        /\ logins[p].calls = 1 /\ logins[p].ok = 1
        /\ call[p].status = "returned"
        /\ Has(call[p].ops, {"publish"})
        /\ ~Has(call[p].ops, {"login"})

\* The operation by which a books fetch would read the category tree from
\* the origin (BookCategoriesDataset._fetch_dataset called directly), and
\* the one by which line 246 asks for it (BookCategoriesDataset.get, the
\* tiered cache).  FetchDataset records neither for a books call: line 245
\* raises before line 246 is reached.
CategoryOriginOps == {"categories_origin_fetch"}
CategoryCacheOps == {"categories_get"}

\* C14: a books get() that reaches the origin tier obtains the category
\* slugs by a fresh origin fetch of the category tree, not through the
\* tiered cache, and leaves the categories snapshots untouched.
C14_SlugsByFreshOriginFetch ==
    \A p \in procs :
        (/\ Finished(call[p])
         /\ call[p].kind = "books"
         /\ Has(call[p].ops, OriginOps)) =>
            /\ Has(call[p].ops, CategoryOriginOps)
            /\ ~Has(call[p].ops, CategoryCacheOps)
            /\ lastWrite["categories"].by # p

\* C15: a books get() that reaches the origin tier and meets no failure of
\* the environment returns the assembled table.
C15_BooksOriginFetchSucceeds ==
    \A p \in procs :
        (/\ Finished(call[p])
         /\ call[p].kind = "books"
         /\ Has(call[p].ops, OriginOps)
         /\ call[p].cause \notin EnvCauses) =>
            /\ call[p].status = "returned"
            /\ call[p].df \in FreshTables

\* C16: the table of the stores origin fetch is the complete online list
\* followed by the complete offline list, each in page order, whichever of
\* the two fetches returned first; when either fetch fails no table is
\* built and the fetch, and with it get(), raises.
C16_OnlineThenOffline ==
    \A p \in procs :
        /\ (Has(call[p].ops, OriginOps) /\ call[p].df # NoTable) =>
              /\ \A f \in Fetchers : task[f].st = "done"
              /\ call[p].df =
                    DataFrame(PagesInOrder("online", task["online"].total)
                              \o PagesInOrder("offline", task["offline"].total))
        /\ (\E f \in Fetchers : task[f].st = "failed") =>
              /\ call[p].df = NoTable
              /\ local["stores"] = NoTable
              /\ pc[p] \notin {"save_fetched", "login", "upload"}
              /\ pc[p] = "idle" =>
                    /\ call[p].status = "raised"
                    /\ call[p].failed = "origin_fetch"

\* The offline fetch returned first, both listings have several pages.
C16_Witness ==
    \E p \in procs :
        /\ pc[p] = "save_fetched"
        /\ task["offline"].finished = 1 /\ task["online"].finished = 2
        /\ task["online"].total = 2 /\ task["offline"].total = 3
        /\ Len(call[p].df[1]) = 5 * PageRecs
        /\ call[p].df[1][1].type = "online"

\* C18: in the categories table every record with a non-null parent_slug
\* is preceded by a record that has that slug and a depth one less, and the
\* records with a null parent_slug are exactly those of depth 0.
C18_ParentBeforeChild ==
    LET rows == all_categories
    IN \A j \in 1..Len(rows) :
          /\ rows[j].parent_slug = Null <=> rows[j].depth = 0
          /\ rows[j].parent_slug # Null =>
                \E i \in 1..(j - 1) :
                    /\ rows[i].slug = rows[j].parent_slug
                    /\ rows[i].depth = rows[j].depth - 1

\* A table with a grandchild and with a second root after it.
C18_Witness ==
    LET rows == all_categories
    IN \E i, j, r \in 1..Len(rows) :
          /\ i < j /\ j < r
          /\ rows[j].depth = 2 /\ rows[i].depth = 1
          /\ rows[i].slug = rows[j].parent_slug
          /\ rows[r].depth = 0 /\ rows[r].parent_slug = Null

(***************************************************************************)
(* Claims on the tiered cache store used by two processes.                 *)
(***************************************************************************)
\* The step of process p writes the local snapshot file (_save_local).
WritesLocal(p) == pc[p] \in {"save_downloaded", "save_fetched"} /\ pc'[p] # pc[p]

\* The step of process p publishes to the shared store (upload_file returns).
Publishes(p) == pc[p] = "upload" /\ shared' # shared

\* C19 as stated: once the local snapshot of a kind exists no get() writes
\* it again, and once the shared snapshot exists no get() publishes it again.
C19_AsStated ==
    [][\A p \in procs :
          LET k == call[p].kind
          IN /\ WritesLocal(p) => local[k] = NoTable
             /\ Publishes(p) => shared[k] = NoTable]_vars

\* C19: a get() that finds the local snapshot at its local check writes no
\* file and publishes nothing, and a get() whose existence check finds the
\* shared snapshot publishes nothing.  A snapshot that exists is written
\* again only by a call that made its check before the snapshot existed (a
\* concurrent call) or whose existence check failed with an error.
C19_ReadOnlyOnceSeen ==
    [][\A p \in procs :
          LET k == call[p].kind
          IN /\ WritesLocal(p) => ~call[p].hadLocal
             /\ Publishes(p) =>
                   /\ ~call[p].hadLocal
                   /\ call[p].check \in {"missing", "network", "auth"}
                   /\ call[p].check = "missing" => ~call[p].hadShared
             /\ (WritesLocal(p) /\ local[k] # NoTable) =>
                   /\ lastWrite[k].by \in procs \ {p}
                   /\ lastWrite'[k].by = p]_vars

\* A call of one process is served from the snapshot the other one wrote.
C19_Witness ==
    \E p, q \in procs :
        /\ p # q
        /\ lastWrite[raced].by = q
        /\ shared[raced] = local[raced]
        /\ call[p].hadLocal /\ call[p].status = "returned"
        /\ call[p].ops = <<"load_local">>
        /\ call[p].df = local[raced]

\* C20: two processes that both miss the local and the shared snapshot both
\* run the origin fetch, write and publish; the local snapshot is the whole
\* table of the process that wrote last, and a racing call that met no
\* failure of the environment returns a complete table.
C20_LastWriterWins ==
    /\ \A k \in Kinds :
          lastWrite[k].by # "none" => local[k] = lastWrite[k].df
    /\ \A p \in procs :
          (/\ Finished(call[p])
           /\ Has(call[p].ops, OriginOps)
           /\ call[p].cause \notin EnvCauses) =>
              /\ call[p].status = "returned"
              /\ call[p].df \in FreshTables

\* The outcome of a race in which both origin fetches and both publish
\* steps succeeded: each call returned the table it fetched and the file
\* holds the table of the process that wrote last.
RaceOutcome ==
    \A p, q \in procs :
        (/\ p # q
         /\ call[p].status = "returned" /\ call[q].status = "returned"
         /\ Has(call[p].ops, OriginOps) /\ Has(call[q].ops, OriginOps)
         /\ lastWrite[raced].by = q) =>
            /\ call[p].df \in FreshTables /\ call[q].df \in FreshTables
            /\ local[raced] = call[q].df

\* Both racers fetched different tables, wrote and published.
RaceReached ==
    \E p, q \in procs :
        /\ p # q
        /\ call[p].status = "returned" /\ call[q].status = "returned"
        /\ Has(call[p].ops, {"publish"}) /\ Has(call[q].ops, {"publish"})
        /\ lastWrite[raced].by = q
        /\ call[p].df # call[q].df
        /\ local[raced] = call[q].df

(***************************************************************************)
(* Claims on the failure paths of Dataset.get.                             *)
(***************************************************************************)
\* The operations of a get() that has reached the origin tier.
OriginPath == <<"load_local", "hf_check", "origin_fetch">>

\* C21: when the origin fetch fails, get() raises that error having
\* written no local snapshot, attempted no publish and performed no login;
\* the snapshots, the login flag and the memo are as before the call, so the
\* next get() of that kind misses locally again and, unless it now finds
\* the shared snapshot, runs the origin fetch again.
C21_FailedFetchLeavesNoTrace ==
    \A p \in procs :
        LET c == call[p]
        IN /\ c.failed = "origin_fetch" =>
                /\ c.status = "raised" /\ pc[p] = "idle"
                /\ c.cause \in FetchOutcomes(c.kind) \ {"ok"}
                /\ c.ops = OriginPath
                /\ c.df = NoTable
                /\ local[c.kind] = NoTable
                /\ lastWrite[c.kind] = NoWrite
                /\ memo[p][c.kind] = NoTable
                /\ c.hadShared <=> shared[c.kind] # NoTable
           /\ (c.prevFailed = "origin_fetch" /\ Has(c.ops, {"load_local"})) =>
                /\ ~c.hadLocal
                /\ (Finished(c) /\ c.check # "ok") => Has(c.ops, OriginOps)

\* The get() after a failed origin fetch fetches again, and succeeds.
C21_Witness ==
    \E p \in procs :
        /\ call[p].prevFailed = "origin_fetch"
        /\ ~call[p].hadLocal /\ ~call[p].hadShared
        /\ Count(call[p].ops, "origin_fetch") = 1
        /\ call[p].status = "returned"
        /\ local[call[p].kind] = call[p].df

\* C22: when the existence check succeeds and the download then fails,
\* get() raises the download error: the origin is not contacted and no
\* local snapshot is written.
C22_DownloadFailureRaises ==
    \A p \in procs :
        LET c == call[p]
        IN /\ c.failed = "hf_download" =>
                /\ c.status = "raised" /\ pc[p] = "idle"
                /\ c.check = "ok"
                /\ c.ops = <<"load_local", "hf_check", "hf_download">>
                /\ ~Has(c.ops, OriginOps)
                /\ c.df = NoTable
                /\ local[c.kind] = NoTable
                /\ lastWrite[c.kind] = NoWrite
                /\ memo[p][c.kind] = NoTable
           /\ (c.check = "ok" /\ c.viaGet) => ~Has(c.ops, OriginOps)

C22_Witness ==
    \E p \in procs :
        /\ call[p].failed = "hf_download"
        /\ call[p].status = "raised"
        /\ shared[call[p].kind] # NoTable
        /\ local[call[p].kind] = NoTable

\* The steps of the publish attempt.
PublishOps == {"login", "publish"}

\* C23: the local snapshot is written before the publish attempt starts and
\* the publish is attempted only on the origin path; after a get() whose
\* login or publish step failed the local snapshot holds the fetched table
\* and the shared store is as it was, and the next get() of that kind is
\* served from the local snapshot without a new publish attempt.
C23_PublishNeverRetried ==
    \A p \in procs :
        LET c == call[p]
        IN /\ pc[p] \in {"login", "upload"} =>
                /\ c.ops[Len(c.ops)] \in {"save_local", "login"}
                /\ local[c.kind] = c.df /\ c.df # NoTable
           /\ Has(c.ops, PublishOps) =>
                /\ Len(c.ops) > Len(PublishPath)
                /\ SubSeq(c.ops, 1, Len(PublishPath)) = PublishPath
           /\ c.failed \in PublishOps =>
                /\ local[c.kind] = c.df /\ c.df # NoTable
                /\ c.hadShared <=> shared[c.kind] # NoTable
                /\ c.hadShared => shared[c.kind] = StaleTable
           /\ (c.prevFailed \in PublishOps /\ Has(c.ops, {"load_local"})) =>
                /\ c.hadLocal
                /\ c.ops = <<"load_local">>
                /\ c.status = "returned"
                /\ c.df = local[c.kind]
                /\ c.hadShared <=> shared[c.kind] # NoTable

\* After a failed publish the next get() is served from the local file and
\* the shared snapshot is still absent.
C23_Witness ==
    \E p \in procs :
        /\ call[p].prevFailed = "publish"
        /\ call[p].status = "returned"
        /\ call[p].ops = <<"load_local">>
        /\ call[p].df = local[call[p].kind]
        /\ shared[call[p].kind] = NoTable

(***************************************************************************)
(* Claims on the description fetches of the books assembly.                *)
(***************************************************************************)
\* The description fetch of book i of category c was issued and failed.
DescriptionFailed(c, i) == btask[c].desc[i] = "failed"

\* C24: every book carries the description fetched for its own slug,
\* whatever the order in which the description fetches completed, and a
\* fetch that failed leaves null only the description of its own book.
C24_OwnDescription ==
    /\ \A c \in Cats :
          btask[c].st = "done" =>
             \A i \in 1..Len(btask[c].books) :
                LET book == btask[c].books[i]
                IN /\ book.description \in {Null, Description(book.slug)}
                   /\ book.description = Null <=> DescriptionFailed(c, i)
    /\ bresult.st = "done" =>
          \A j \in 1..Len(Rows(bresult)) :
             Rows(bresult)[j].description
                \in {Null, Description(Rows(bresult)[j].slug)}

\* The fetches of a category completed in the reverse of the order of its
\* books, the one of the second book failed.
C24_Witness ==
    /\ bresult.st = "done"
    /\ btask["a"].completed = <<2, 1>>
    /\ btask["a"].desc = <<"ok", "failed">>
    /\ btask["a"].books[1].description = Description(btask["a"].books[1].slug)
    /\ btask["a"].books[2].description = Null

\* Every description fetch of every category has completed.
AllDescriptionsComplete ==
    \A c \in Cats :
        /\ Len(btask[c].desc) = Len(catalog[c])
        /\ \A i \in 1..Len(btask[c].desc) : btask[c].desc[i] \in {"ok", "failed"}

\* C25: the description limiter neither deadlocks nor leaks permits: when
\* every request eventually completes, a books fetch in which no page
\* request fails eventually has every description fetch completed, every
\* permit back and the table built, whatever the number of books and of
\* failed description fetches; a fetch in which a page request fails
\* eventually raises.
C25_LimiterNeverBlocks ==
    <>(\/ bresult.st = "raised"
       \/ /\ bresult.st = "done"
          /\ AllDescriptionsComplete
          /\ permits = SemaphoreLimit
          /\ waiters = <<>>)

\* More books than permits, two failed description fetches, table built.
C25_Witness ==
    /\ catalog = LargeCatalog
    /\ Cardinality(Requests(catalog)) > SemaphoreLimit
    /\ Cardinality(DescState("failed")) = 2
    /\ bresult.st = "done"
    /\ permits = SemaphoreLimit

(***************************************************************************)
(* Claims on the memoized accessors and on the login flag.                 *)
(***************************************************************************)
\* C26: the memo of an accessor is filled only by a call of that accessor
\* that returned a table, with that table; a call that raised memoizes
\* nothing and the next call of the accessor enters Dataset.get() again;
\* no step changes the memo of an accessor other than the one being called,
\* and no entry is ever cleared.
C26_MemoOnlySuccess ==
    /\ [](\A p \in procs :
            /\ call[p].status = "raised" => memo[p][call[p].kind] = NoTable
            /\ call[p].prevFailed # "none" => call[p].viaGet)
    /\ [][\A p \in procs, k \in Kinds :
            memo'[p][k] # memo[p][k] =>
               /\ call[p].kind = k /\ call[p].viaGet
               /\ call'[p].status = "returned"
               /\ memo[p][k] = NoTable
               /\ memo'[p][k] = call'[p].df
               /\ call'[p].df # NoTable]_vars

\* The call after a failed one went through Dataset.get() and was
\* memoized, next to the entry of another accessor.
C26_Witness ==
    \E p \in procs, k \in Kinds :
        /\ call[p].prevFailed # "none"
        /\ call[p].viaGet /\ call[p].status = "returned"
        /\ memo[p][call[p].kind] = call[p].df
        /\ k # call[p].kind
        /\ memo[p][k] \notin {NoTable, call[p].df}

\* C27: hf_login never returns to false; hf_hub.login is called only while
\* it is false, by a publish attempt, and every publish attempt made while
\* it is false calls it; the flag becomes true only by a login call that
\* returned; a login call that raises ends Dataset.get() with that error
\* before anything is published and leaves the flag false, so that the
\* next publish attempt calls login again.
C27_LoginFlag ==
    [][\A p \in procs :
          /\ hf_login[p] => hf_login'[p]
          /\ logins'[p] # logins[p] =>
                /\ ~hf_login[p]
                /\ pc[p] = "login"
                /\ logins'[p].calls = logins[p].calls + 1
          /\ hf_login'[p] # hf_login[p] =>
                /\ logins'[p].ok = logins[p].ok + 1
                /\ pc'[p] = "upload"
                /\ call'[p].status = "running"
          /\ (pc[p] = "login" /\ pc'[p] # "login") =>
                /\ logins'[p] # logins[p]
                /\ logins'[p].ok = logins[p].ok =>
                      /\ pc'[p] = "idle"
                      /\ call'[p].status = "raised"
                      /\ call'[p].failed = "login"
                      /\ ~Has(call'[p].ops, {"publish"})
                      /\ ~hf_login'[p]
                      /\ shared' = shared
          /\ (pc[p] = "save_fetched" /\ pc'[p] # "save_fetched") =>
                pc'[p] = IF hf_login[p] THEN "upload" ELSE "login"]_vars

\* The login raised in one publish attempt and was called again, and
\* returned, in the next.
C27_Witness ==
    \E p \in procs :
        /\ logins[p].calls = 2 /\ logins[p].ok = 1
        /\ hf_login[p]
        /\ Has(call[p].ops, {"login"})
        /\ call[p].status = "returned"

====
